---- MODULE Spec2Model ----
(***************************************************************************)
(* AP_BattMonitor_FuelLevel_Analog: the per-cycle read() of the analog     *)
(* fuel-level estimator, with the analog source, the microsecond clock     *)
(* and the low-pass filter it drives.                                      *)
(*                                                                         *)
(* Number representation.                                                  *)
(*  - uint32_t values (the clock, last_time_micros, dt_us) are pairs       *)
(*    <<hi, lo>> of 16-bit halves, value hi * 2^16 + lo, so that the       *)
(*    arithmetic is exactly arithmetic modulo 2^32.                        *)
(*  - voltages are integers in millivolts (VScale per volt); the fit       *)
(*    coefficients of order 1..3 are integers, the offset is in mV.        *)
(*  - the voltage multiplier is an integer in units of 1/MultScale.        *)
(*  - consumed_mah / consumed_wh are integers in units of                  *)
(*    1/(VScale*MultScale) of the capacity unit, so that                   *)
(*    (1 - (v - empty) * mult) * capacity is computed without division.    *)
(*  - the filter cutoff is in millihertz.                                  *)
(* Sensor voltages are multiples of 100 mV, for which the fixed-point      *)
(* cubic is exact; float rounding is not modelled.                         *)
(***************************************************************************)
EXTENDS Integers, Sequences, FiniteSets, TLC

\* ------------------------------------------------------------------ bounds
\* read() calls per behaviour
MaxReads == 3
\* clock advances per behaviour
MaxTicks == 3

\* ------------------------------------------------------------------ units
Half == 65536
VScale == 1000
MultScale == 10

\* ------------------------------------------------------- uint32_t arithmetic
Zero32 == <<0, 0>>

\* a + b as uint32_t
add32(a, b) ==
    LET lo == a[2] + b[2]
    IN  <<(a[1] + b[1] + (lo \div Half)) % Half, lo % Half>>

\* a - b as uint32_t (the subtraction of line 125 ... wraps modulo 2^32)
sub32(a, b) ==
    LET lo == a[2] - b[2]
        borrow == IF lo < 0 THEN 1 ELSE 0
    IN  <<(a[1] - b[1] - borrow + Half) % Half, (lo + Half) % Half>>

\* a < b as uint32_t
lt32(a, b) == a[1] < b[1] \/ (a[1] = b[1] /\ a[2] < b[2])

\* whole milliseconds in a uint32_t count of microseconds
ms_of(a) == a[1] * 65 + ((a[1] * 536 + a[2]) \div 1000)

VARIABLES
    _pin,                          \* FL_PIN
    _fuel_level_empty_voltage,     \* FL_VLT_MIN, mV
    _fuel_level_voltage_mult,      \* FL_V_MULT, 1/MultScale
    _fuel_level_filter_frequency,  \* FL_FLTR, mHz
    _fuel_fit,                     \* FL_FT, FL_FS, FL_FF, FL_OFF
    _pack_capacity,                \* _params._pack_capacity
    _analog_source,                \* the bound channel, or nullptr
    _voltage_filter,               \* the low-pass filter object
    _state,                        \* the shared BattMonitor_State record
    clock,                         \* AP_HAL::micros(), uint32_t
    hal_calls,                     \* calls made so far to the collaborators
    last,                          \* the most recent read() call: inputs and locals
    history                        \* bookkeeping of the run

config == <<_pin, _fuel_level_empty_voltage, _fuel_level_voltage_mult,
            _fuel_level_filter_frequency, _fuel_fit, _pack_capacity>>

vars == <<config, _analog_source, _voltage_filter, _state, clock, hal_calls,
          last, history>>

\* ------------------------------------------------------ configuration values
\* FL_PIN: the default (disabled) and a board pin
Pins == {-1, 2}
\* FL_VLT_MIN: the default 0.5 V
EmptyVoltages == {500}
\* FL_V_MULT: the default 0.5
VoltageMults == {5}
\* FL_FLTR: filter disabled, zero, the default 0.3 Hz
FilterFrequencies == {-1000, 0, 300}
\* FL_FT, FL_FS, FL_FF, FL_OFF: the defaults (identity) and a full cubic
Fits == {[third |-> 0, second |-> 0, first |-> 1, offset |-> 0],
         [third |-> 1, second |-> -1, first |-> 1, offset |-> 500]}
\* BATT_CAPACITY, tank volume in millilitres
PackCapacities == {10000}
\* voltage_average() results, mV: below empty, empty, full, above full
RawVoltages == {0, 500, 2500, 3000}
\* time that passes between two steps: 0.1 s and 2^31 us
TickSteps == {<<1, 34464>>, <<32768, 0>>}
\* AP_HAL::micros() when the backend is constructed: 1 s after boot
InitClock == <<15, 16960>>

\* ------------------------------------------------------------ analog source
nullptr == <<>>

\* hal.analogin->channel(pin): no channel for a disabled (negative) pin
channel(pin) == IF pin < 0 THEN nullptr ELSE <<pin>>

\* ---------------------------------------------------------- low-pass filter
\* a default-constructed LowPassFilterFloat
NewFilter == [cutoff_freq |-> 0, initialised |-> FALSE, output |-> 0, dt |-> Zero32]

set_cutoff_frequency(f, hz) == [f EXCEPT !.cutoff_freq = hz]

\* alpha = dt / (dt + 1/(2*pi*fc)) in thousandths, clamped to [0, 1000];
\* 1/(2*pi*fc) is 159155/fc ms for fc in mHz, and infinite for fc = 0
lowpass_alpha(dt, fc) ==
    LET dt_ms == ms_of(dt)
        rc_ms == 159155 \div fc
    IN  IF fc <= 0 \/ dt_ms = 0 THEN 0
        ELSE 1000 - ((1000 * rc_ms) \div (dt_ms + rc_ms))

\* apply(sample, dt): the first call initialises the output to the sample
apply(f, sample, dt) ==
    IF ~f.initialised
    THEN [f EXCEPT !.initialised = TRUE, !.output = sample, !.dt = dt]
    ELSE [f EXCEPT !.output = f.output +
                       (((sample - f.output) * lowpass_alpha(dt, f.cutoff_freq)) \div 1000),
                   !.dt = dt]

\* ------------------------------------------------------------- shared state
\* the BattMonitor_State record the framework hands to the constructor
NewState == [healthy |-> FALSE, voltage |-> 0, current_amps |-> 0,
             consumed_mah |-> 0, consumed_wh |-> 0, last_time_micros |-> Zero32]

\* -------------------------------------------------------------- read() parts
\* variant: the null check left out
source_unbound_unchecked == FALSE

\* line 113
source_unbound == _analog_source = nullptr

\* variant: the first cycle (baseline never written) is given a zero dt
dt_us_first_zero(tnow, last_time_micros) ==
    IF last_time_micros = Zero32 THEN Zero32 ELSE sub32(tnow, last_time_micros)

\* variant: a clock value below the baseline is taken for no elapsed time
dt_us_no_wrap(tnow, last_time_micros) ==
    IF lt32(tnow, last_time_micros) THEN Zero32 ELSE sub32(tnow, last_time_micros)

\* line 125
dt_us(tnow, last_time_micros) == sub32(tnow, last_time_micros)

\* lines 131-135, raw voltage in mV
fit(raw_voltage) ==
    LET sq == (raw_voltage * raw_voltage) \div VScale
        cube == (sq * raw_voltage) \div VScale
    IN  (_fuel_fit.third * cube) + (_fuel_fit.second * sq) +
        (_fuel_fit.first * raw_voltage) + _fuel_fit.offset

\* variant: the filtered value is used whatever the cutoff
voltage_used_filtered(filtered_voltage, voltage) == filtered_voltage

\* line 142
voltage_used(filtered_voltage, voltage) ==
    IF _fuel_level_filter_frequency >= 0 THEN filtered_voltage ELSE voltage

\* line 148, in units of 1/(VScale*MultScale)
fuel_level_ratio(v) == (v - _fuel_level_empty_voltage) * _fuel_level_voltage_mult

\* variant: the used ratio clipped to [0, 1]
fuel_level_used_ratio_clamped(v) ==
    LET r == (VScale * MultScale) - fuel_level_ratio(v)
    IN  IF r < 0 THEN 0 ELSE IF r > VScale * MultScale THEN VScale * MultScale ELSE r

\* line 149
fuel_level_used_ratio(v) == (VScale * MultScale) - fuel_level_ratio(v)

\* variant: a failed selection also clears the reading
state_failed_clears(s) == [s EXCEPT !.healthy = FALSE, !.voltage = 0]

\* lines 118-119
state_failed(s) == [s EXCEPT !.healthy = FALSE]

\* variant: the health flag is not set on success
state_ok_sticky_health(s, tnow, filtered_voltage, v_used) ==
    LET mah == fuel_level_used_ratio(v_used) * _pack_capacity
    IN  [healthy |-> s.healthy, voltage |-> filtered_voltage, consumed_mah |-> mah,
         current_amps |-> 0, consumed_wh |-> mah, last_time_micros |-> tnow]

\* variant: consumed_wh is not updated
state_ok_stale_wh(s, tnow, filtered_voltage, v_used) ==
    LET mah == fuel_level_used_ratio(v_used) * _pack_capacity
    IN  [healthy |-> TRUE, voltage |-> filtered_voltage, consumed_mah |-> mah,
         current_amps |-> 0, consumed_wh |-> s.consumed_wh, last_time_micros |-> tnow]

\* variant: current_amps is given the measured voltage
state_ok_amps_from_voltage(s, tnow, filtered_voltage, v_used) ==
    LET mah == fuel_level_used_ratio(v_used) * _pack_capacity
    IN  [healthy |-> TRUE, voltage |-> filtered_voltage, consumed_mah |-> mah,
         current_amps |-> filtered_voltage, consumed_wh |-> mah,
         last_time_micros |-> tnow]

\* variant: the time of the cycle is not recorded
state_ok_stale_time(s, tnow, filtered_voltage, v_used) ==
    LET mah == fuel_level_used_ratio(v_used) * _pack_capacity
    IN  [healthy |-> TRUE, voltage |-> filtered_voltage, consumed_mah |-> mah,
         current_amps |-> 0, consumed_wh |-> mah,
         last_time_micros |-> s.last_time_micros]

\* lines 121, 144-160
state_ok(s, tnow, filtered_voltage, v_used) ==
    LET mah == fuel_level_used_ratio(v_used) * _pack_capacity
    IN  [healthy |-> TRUE,
         voltage |-> filtered_voltage,
         consumed_mah |-> mah,
         current_amps |-> 0,
         consumed_wh |-> mah,
         last_time_micros |-> tnow]

\* what `last` holds when a call computed nothing
NoLocals == [raw_voltage |-> 0, voltage |-> 0, filtered_voltage |-> 0,
             voltage_used |-> 0, tnow |-> Zero32, dt_us |-> Zero32]

NoCall == [outcome |-> "none", set_pin |-> FALSE, locals |-> NoLocals]

\* bookkeeping of a run: calls and clock advances made, successful cycles,
\* failed calls since the last successful cycle, failed calls between the two
\* most recent successful cycles, time since last_time_micros was written
\* (since boot before that), last_time_micros before the most recent
\* successful cycle, and the record as the most recent successful cycle left it
NoHistory == [reads |-> 0, ticks |-> 0, successes |-> 0, failures |-> 0,
              skipped |-> 0, elapsed |-> InitClock, prev_time |-> Zero32,
              snapshot |-> NewState]

\* a wide (non-wrapping) sum: time elapsed, hi part unbounded
addwide(a, b) ==
    LET lo == a[2] + b[2]
    IN  <<a[1] + b[1] + (lo \div Half), lo % Half>>

\* ------------------------------------------------------------------- Init
\* the constructor, lines 95-106
Init ==
    /\ _pin \in Pins
    /\ _fuel_level_empty_voltage \in EmptyVoltages
    /\ _fuel_level_voltage_mult \in VoltageMults
    /\ _fuel_level_filter_frequency \in FilterFrequencies
    /\ _fuel_fit \in Fits
    /\ _pack_capacity \in PackCapacities
    /\ _analog_source = channel(_pin)
    /\ _voltage_filter = set_cutoff_frequency(NewFilter,
           IF _fuel_level_filter_frequency >= 0
           THEN _fuel_level_filter_frequency ELSE 300)
    /\ _state = NewState
    /\ clock = InitClock
    /\ hal_calls = [set_pin |-> 0, micros |-> 0, voltage_average |-> 0, apply |-> 0]
    /\ last = NoCall
    /\ history = NoHistory

\* ------------------------------------------------------------------ actions
\* read(), lines 111-161; set_pin_ok and raw_voltage are what the analog
\* source answers in this call. The filter is handed dt_us itself, in
\* microseconds (line 137 scales it to seconds).
read(set_pin_ok, raw_voltage) ==
    /\ history.reads < MaxReads
    /\ IF source_unbound THEN
          /\ UNCHANGED <<_analog_source, _voltage_filter, _state, hal_calls>>
          /\ last' = [outcome |-> "disabled", set_pin |-> FALSE, locals |-> NoLocals]
          /\ history' = [history EXCEPT !.reads = @ + 1]
       ELSE IF ~set_pin_ok THEN
          /\ _state' = state_failed(_state)
          /\ hal_calls' = [hal_calls EXCEPT !.set_pin = @ + 1]
          /\ last' = [outcome |-> "failed", set_pin |-> set_pin_ok, locals |-> NoLocals]
          /\ history' = [history EXCEPT !.reads = @ + 1, !.failures = @ + 1]
          /\ UNCHANGED <<_analog_source, _voltage_filter>>
       ELSE
          LET tnow == clock
              dt == dt_us(tnow, _state.last_time_micros)
              voltage == fit(raw_voltage)
              filter == apply(_voltage_filter, voltage, dt)
              filtered_voltage == filter.output
              v_used == voltage_used(filtered_voltage, voltage)
          IN  /\ _analog_source' = <<_pin>>
              /\ _voltage_filter' = filter
              /\ _state' = state_ok(_state, tnow, filtered_voltage, v_used)
              /\ hal_calls' = [set_pin |-> hal_calls.set_pin + 1,
                               micros |-> hal_calls.micros + 1,
                               voltage_average |-> hal_calls.voltage_average + 1,
                               apply |-> hal_calls.apply + 1]
              /\ last' = [outcome |-> "ok", set_pin |-> set_pin_ok,
                          locals |-> [raw_voltage |-> raw_voltage,
                                      voltage |-> voltage,
                                      filtered_voltage |-> filtered_voltage,
                                      voltage_used |-> v_used,
                                      tnow |-> tnow,
                                      dt_us |-> dt]]
              /\ history' = [history EXCEPT
                      !.reads = @ + 1, !.successes = @ + 1, !.failures = 0,
                      !.skipped = history.failures, !.elapsed = Zero32,
                      !.prev_time = _state.last_time_micros,
                      !.snapshot = state_ok(_state, tnow, filtered_voltage, v_used)]
    /\ UNCHANGED <<config, clock>>

\* the microsecond clock advances by d between two calls
Tick(d) ==
    /\ history.ticks < MaxTicks
    /\ clock' = add32(clock, d)
    /\ history' = [history EXCEPT !.ticks = @ + 1, !.elapsed = addwide(@, d)]
    /\ UNCHANGED <<config, _analog_source, _voltage_filter, _state, hal_calls, last>>

Next ==
    \/ \E set_pin_ok \in BOOLEAN, raw_voltage \in RawVoltages :
          read(set_pin_ok, raw_voltage)
    \/ \E d \in TickSteps : Tick(d)

Spec == Init /\ [][Next]_vars

\* ============================================================ properties
\* a step that is one read() call
ReadStep == history'.reads = history.reads + 1

\* a step that is one read() call whose sampling succeeded
OkStep == ReadStep /\ last'.outcome = "ok"

\* the voltage at which the calibration reads a full tank: empty + 1/multiplier
FullVoltage == _fuel_level_empty_voltage + ((VScale * MultScale) \div _fuel_level_voltage_mult)

\* the capacity in the unit of consumed_mah
FullScale == VScale * MultScale * _pack_capacity

\* a wide elapsed time reduced modulo 2^32
mod32(e) == <<e[1] % Half, e[2]>>

\* C1: a read() whose set_pin fails on a bound source sets healthy to false
\* and leaves voltage, current_amps, consumed_mah, consumed_wh and
\* last_time_micros as they were; after any number of consecutive failed
\* calls the record still shows the values of the last successful cycle.
C1_FailedReadKeepsValues ==
    /\ [](last.outcome = "failed" =>
            _state = [history.snapshot EXCEPT !.healthy = FALSE])
    /\ [][(ReadStep /\ ~source_unbound /\ ~last'.set_pin) =>
            /\ _state'.healthy = FALSE
            /\ _state'.voltage = _state.voltage
            /\ _state'.current_amps = _state.current_amps
            /\ _state'.consumed_mah = _state.consumed_mah
            /\ _state'.consumed_wh = _state.consumed_wh
            /\ _state'.last_time_micros = _state.last_time_micros]_vars

\* two failed calls in a row after a successful cycle
C1_Witness ==
    /\ last.outcome = "failed"
    /\ history.failures >= 2
    /\ history.successes >= 1
    /\ ~_state.healthy
    /\ _state.consumed_mah # 0

\* C2: with a negative pin no channel is bound and every read() is inert:
\* the state record (health flag included), the filter and the analog source
\* are unchanged and no call reaches the clock, the sensor or the filter.
C2_DisabledIsInert ==
    [][_pin < 0 =>
         /\ _analog_source = nullptr
         /\ UNCHANGED <<_state, _voltage_filter, _analog_source, hal_calls>>]_vars

\* read() called repeatedly on a disabled estimator
C2_Witness ==
    /\ _pin < 0
    /\ last.outcome = "disabled"
    /\ history.reads >= 2
    /\ history.ticks >= 1

\* C3: with a bound source, after every read() the health flag equals the
\* result of that call's set_pin; it is never sticky.
C3_HealthyIsSetPinResult ==
    (~source_unbound /\ last.outcome # "none") => (_state.healthy = last.set_pin)

\* healthy again on the first successful selection after two failed reads
C3_Witness ==
    /\ last.outcome = "ok"
    /\ _state.healthy
    /\ history.skipped >= 2

\* C4: consumed_wh equals consumed_mah after every successful cycle, no read()
\* changes one of the two without the other, and so they are equal in every
\* state after the first successful cycle.
C4_WhEqualsMah ==
    /\ [](history.successes > 0 => _state.consumed_wh = _state.consumed_mah)
    /\ [][(_state'.consumed_mah # _state.consumed_mah)
            <=> (_state'.consumed_wh # _state.consumed_wh)]_vars

\* a failed call after a cycle that wrote a nonzero consumed volume
C4_Witness ==
    /\ history.successes > 0
    /\ last.outcome = "failed"
    /\ _state.consumed_mah # 0
    /\ _state.consumed_wh = _state.consumed_mah

\* C5: current_amps is zero after every successful cycle, failed and disabled
\* calls do not change it, and so it is zero in every state after the first
\* successful cycle.
C5_CurrentAmpsZero ==
    /\ [](history.successes > 0 => _state.current_amps = 0)
    /\ [][(ReadStep /\ last'.outcome # "ok") =>
            _state'.current_amps = _state.current_amps]_vars

\* a successful cycle that measured a nonzero voltage
C5_Witness ==
    /\ last.outcome = "ok"
    /\ _state.voltage # 0
    /\ _state.current_amps = 0

\* a successful cycle writes the clock value it read
TimeWritten == OkStep => _state'.last_time_micros = clock

\* any other step leaves last_time_micros alone
TimeKept == ~OkStep => _state'.last_time_micros = _state.last_time_micros

C8_UnclampedConsumed ==
    last.outcome = "ok" =>
        LET v == last.locals.voltage_used
            mah == _state.consumed_mah
        IN  /\ mah = FullScale - ((v - _fuel_level_empty_voltage)
                                    * _fuel_level_voltage_mult * _pack_capacity)
            /\ v = _fuel_level_empty_voltage => mah = FullScale
            /\ v = FullVoltage => mah = 0
            /\ v > FullVoltage => mah < 0
            /\ v < _fuel_level_empty_voltage => mah > FullScale

\* a voltage above full gave a negative consumed volume
C8_Witness ==
    /\ last.outcome = "ok"
    /\ last.locals.voltage_used > FullVoltage
    /\ _state.consumed_mah < 0

\* C9 as claimed: the first successful read() passes an elapsed time of zero
\* to the filter.
C9_Original ==
    (last.outcome = "ok" /\ history.successes = 1) => _voltage_filter.dt = Zero32

\* C9 amended: the first successful read() passes to the filter the clock
\* value it read minus the initial last_time_micros of the record, modulo
\* 2^32: with the record starting at zero, the clock value itself.
C9_FirstDtIsClock ==
    (last.outcome = "ok" /\ history.successes = 1) =>
        /\ _voltage_filter.dt = sub32(last.locals.tnow, NewState.last_time_micros)
        /\ _voltage_filter.dt = last.locals.tnow
        /\ _state.last_time_micros = last.locals.tnow

\* the first successful cycle handed a nonzero elapsed time to the filter
C9_Witness ==
    /\ last.outcome = "ok"
    /\ history.successes = 1
    /\ _voltage_filter.dt # Zero32
    /\ history.ticks >= 1

\* C10: on every successful cycle after the first the filter is given the
\* time elapsed since the most recent successful cycle, modulo 2^32: the true
\* elapsed time when less than 2^32 us have passed, also across a wrap of
\* the clock and across failed calls in between.
C10_DtSinceLastSuccess ==
    [][(OkStep /\ history.successes >= 1) =>
         /\ _voltage_filter'.dt = mod32(history.elapsed)
         /\ history.elapsed[1] < Half => _voltage_filter'.dt = history.elapsed
         /\ _voltage_filter'.dt = sub32(clock, history.snapshot.last_time_micros)]_vars

\* a successful cycle after a failed call, with the clock wrapped in between
C10_Witness ==
    /\ last.outcome = "ok"
    /\ history.successes >= 2
    /\ history.skipped >= 1
    /\ lt32(_state.last_time_micros, history.prev_time)
    /\ _voltage_filter.dt = <<32768, 0>>

====
